---- MODULE Spec2Model ----
(***************************************************************************)
(* Model of the two programs of the repository.                            *)
(*                                                                         *)
(*   src/pbr-simulation-complete.cc : class PbrRouting (policy-based       *)
(*       routing on the DSCP field) and the way main installs it on the    *)
(*       router's Ipv4 object.            Specification: Spec              *)
(*   src/qos-implementation.cc      : CheckMetrics, the flow-statistics    *)
(*       aggregation over a FlowMonitor snapshot.  Specification: QosSpec  *)
(*                                                                         *)
(* The two programs share no state; each specification leaves the other    *)
(* program's variables at their initial values.                            *)
(***************************************************************************)
EXTENDS Integers, Sequences, FiniteSets, TLC

(***************************************************************************)
(* Program constants and bounds of the PBR model                           *)
(***************************************************************************)
DSCP_VIDEO_EF == 46
DSCP_DATA_BE == 0

\* Interfaces of the router: loopback 0 and the devices d0, d1, d2 at 1, 2, 3.
NumInterfaces == 4

\* Largest interface index handed to the constructor (uint32_t in the code).
MaxIfIndex == 4

\* Number of nested entries of RouteOutput/RouteInput after which a build
\* that pushes a frame per entry has used up its stack.
StackLimit == 3

\* Header::GetDscp returns the six DSCP bits of the TOS byte.
Dscps == 0 .. 63

NextHops == {"10.0.2.2", "10.0.3.2"}
Destinations == {"10.0.2.2", "10.0.9.9"}

\* What the underlying (list/global) routing protocol may answer to RouteOutput.
FallbackRoutes ==
    { [kind |-> "route", destination |-> d, source |-> "10.0.1.2",
       gateway |-> "10.0.1.1", outputDevice |-> <<"dev", 1>>] : d \in Destinations }
FallbackErrors == { [kind |-> "error", sockerr |-> "ERROR_NOROUTETOHOST"] }

NoResult == [kind |-> "none"]
NoCall == [op |-> "none"]

VARIABLES
    \* PbrRouting's fields
    m_ipv4, m_videoNextHop, m_dataNextHop, m_videoIfIndex, m_dataIfIndex,
    \* the router's Ipv4 object: its installed routing protocol
    routingProtocol,
    \* whether the build turns the tail call of line 108/117 into a jump
    tailCall,
    \* the call in progress or last completed
    pc, call, depth, branch, result, fallbackCalls, fallbackArgs, fallbackRet,
    \* qos-implementation.cc: the monitor's flow table and CheckMetrics' pass
    flows, events, stats, totals, report, checked

pbrVars == <<m_ipv4, m_videoNextHop, m_dataNextHop, m_videoIfIndex, m_dataIfIndex,
             routingProtocol, tailCall,
             pc, call, depth, branch, result, fallbackCalls, fallbackArgs, fallbackRet>>
qosVars == <<flows, events, stats, totals, report, checked>>
vars == <<pbrVars, qosVars>>

configVars == <<m_videoNextHop, m_dataNextHop, m_videoIfIndex, m_dataIfIndex, tailCall>>
callVars == <<pc, call, depth, branch, result, fallbackCalls, fallbackArgs, fallbackRet>>

(***************************************************************************)
(* Ipv4 object of the router (ns-3 collaborator, as the engine uses it)    *)
(***************************************************************************)
\* Ipv4::GetNetDevice / Ipv4::GetAddress are defined for attached interfaces only.
IsAttached(i) == i \in 0 .. (NumInterfaces - 1)

GetNetDevice(i) == <<"dev", i>>

GetLocal(i) == IF i = 0 THEN "127.0.0.1"
               ELSE IF i = 1 THEN "10.0.1.2"
               ELSE IF i = 2 THEN "10.0.2.1"
               ELSE "10.0.3.1"

(***************************************************************************)
(* PbrRouting                                                              *)
(***************************************************************************)
\* The chain comparing against the TOS byte (DSCP shifted by two bits).
ClassifyToS(dscp) ==
    IF dscp = DSCP_VIDEO_EF * 4 THEN "video"
    ELSE IF dscp = DSCP_DATA_BE THEN "data"
    ELSE "fallback"

\* The if / else-if chain on the DSCP value.
Classify(dscp) ==
    IF dscp = DSCP_VIDEO_EF THEN "video"
    ELSE IF dscp = DSCP_DATA_BE THEN "data"
    ELSE "fallback"

\* Create<Ipv4Route>() followed by the four setters.  GetAddress and
\* GetNetDevice dereference the interface object, which is null for an index
\* that is not attached: the process dies there.
PolicyRoute(dst, nextHop, ifIndex) ==
    IF IsAttached(ifIndex)
    THEN [kind |-> "route", destination |-> dst, source |-> GetLocal(ifIndex),
          gateway |-> nextHop, outputDevice |-> GetNetDevice(ifIndex)]
    ELSE [kind |-> "crash", cause |-> "null_interface"]

PbrInit ==
    /\ m_ipv4 = "null"
    /\ m_videoNextHop \in NextHops
    /\ m_dataNextHop \in NextHops
    /\ m_videoIfIndex \in 0 .. MaxIfIndex
    /\ m_dataIfIndex \in 0 .. MaxIfIndex
    /\ routingProtocol = "list"
    /\ tailCall \in BOOLEAN
    /\ pc = "idle"
    /\ call = NoCall
    /\ depth = 0
    /\ branch = "none"
    /\ result = NoResult
    /\ fallbackCalls = 0
    /\ fallbackArgs = NoCall
    /\ fallbackRet = NoResult

\* The other program, not started.
QosIdle ==
    /\ flows = <<>>
    /\ events = 0
    /\ stats = <<>>
    /\ totals = [k |-> "none"]
    /\ report = [k |-> "none"]
    /\ checked = FALSE

Init == PbrInit /\ QosIdle

\* No call is executing: the simulator is single-threaded.
Quiet == pc = "idle"

SetIpv4 ==
    /\ Quiet
    /\ m_ipv4 = "null"
    /\ m_ipv4' = "router"
    /\ UNCHANGED <<configVars, routingProtocol, callVars, qosVars>>

\* ipv4Router->SetRoutingProtocol(pbr): the Ipv4 object now answers
\* GetRoutingProtocol() with the engine itself (and hands itself to SetIpv4).
SetRoutingProtocol ==
    /\ Quiet
    /\ m_ipv4 = "router"
    /\ routingProtocol = "list"
    /\ routingProtocol' = "pbr"
    /\ UNCHANGED <<m_ipv4, configVars, callVars, qosVars>>

\* Entry of RouteOutput up to the return of a policy route or to line 108.
RouteOutput(dscp, dst) ==
    /\ Quiet
    /\ m_ipv4 = "router"
    /\ call' = [op |-> "RouteOutput", dscp |-> dscp, dst |-> dst, oif |-> "null"]
    /\ branch' = Classify(dscp)
    /\ depth' = 1
    /\ fallbackCalls' = 0
    /\ fallbackArgs' = NoCall
    /\ fallbackRet' = NoResult
    /\ IF branch' = "video"
       THEN result' = PolicyRoute(dst, m_videoNextHop, m_videoIfIndex)
       ELSE IF branch' = "data"
       THEN result' = PolicyRoute(dst, m_dataNextHop, m_dataIfIndex)
       ELSE result' = NoResult
    /\ pc' = IF branch' = "fallback" THEN "delegate"
             ELSE IF result'.kind = "crash" THEN "crashed" ELSE "returned"
    /\ UNCHANGED <<m_ipv4, configVars, routingProtocol, qosVars>>

\* Entry of RouteInput up to line 117: no decision of its own.
RouteInput(dscp, dst) ==
    /\ Quiet
    /\ m_ipv4 = "router"
    /\ call' = [op |-> "RouteInput", dscp |-> dscp, dst |-> dst, idev |-> <<"dev", 1>>]
    /\ branch' = "fallback"
    /\ depth' = 1
    /\ fallbackCalls' = 0
    /\ fallbackArgs' = NoCall
    /\ fallbackRet' = NoResult
    /\ result' = NoResult
    /\ pc' = "delegate"
    /\ UNCHANGED <<m_ipv4, configVars, routingProtocol, qosVars>>

\* Line 108 when GetRoutingProtocol() is the underlying protocol: its answer
\* is returned through every frame.
DelegateRouteOutput ==
    /\ pc = "delegate"
    /\ call.op = "RouteOutput"
    /\ routingProtocol = "list"
    /\ \E r \in FallbackRoutes \cup FallbackErrors :
          /\ r.kind = "route" => r.destination = call.dst
          /\ fallbackRet' = r
          /\ result' = r
    /\ fallbackCalls' = fallbackCalls + 1
    /\ fallbackArgs' = call
    /\ pc' = "returned"
    /\ UNCHANGED <<m_ipv4, configVars, routingProtocol, call, depth, branch, qosVars>>

\* Line 117 when GetRoutingProtocol() is the underlying protocol.
DelegateRouteInput ==
    /\ pc = "delegate"
    /\ call.op = "RouteInput"
    /\ routingProtocol = "list"
    /\ \E b \in BOOLEAN :
          /\ fallbackRet' = [kind |-> "bool", value |-> b]
          /\ result' = [kind |-> "bool", value |-> b]
    /\ fallbackCalls' = fallbackCalls + 1
    /\ fallbackArgs' = call
    /\ pc' = "returned"
    /\ UNCHANGED <<m_ipv4, configVars, routingProtocol, call, depth, branch, qosVars>>

\* Line 108 / 117 when GetRoutingProtocol() is the engine itself: the same
\* method is entered again with the same arguments, takes the same branch and
\* arrives at the same line.  depth counts the entries.  A build that pushes a
\* frame per entry dies when the stack is full (StackOverflow); a build that
\* made the tail call a jump goes round for ever and the call never returns.
Reenter(op) ==
    /\ pc = "delegate"
    /\ call.op = op
    /\ routingProtocol = "pbr"
    /\ depth < StackLimit
    /\ depth' = depth + 1
    /\ UNCHANGED <<m_ipv4, configVars, routingProtocol,
                   pc, call, branch, result, fallbackCalls, fallbackArgs, fallbackRet, qosVars>>

ReenterRouteOutput == Reenter("RouteOutput")

ReenterRouteInput == Reenter("RouteInput")

StackOverflow ==
    /\ pc = "delegate"
    /\ routingProtocol = "pbr"
    /\ depth = StackLimit
    /\ ~tailCall
    /\ pc' = "crashed"
    /\ result' = [kind |-> "crash", cause |-> "stack_overflow"]
    /\ UNCHANGED <<m_ipv4, configVars, routingProtocol,
                   call, depth, branch, fallbackCalls, fallbackArgs, fallbackRet, qosVars>>

\* The caller takes the returned value; the frame and its locals are gone.
Complete ==
    /\ pc = "returned"
    /\ pc' = "idle"
    /\ call' = NoCall
    /\ depth' = 0
    /\ branch' = "none"
    /\ result' = NoResult
    /\ fallbackCalls' = 0
    /\ fallbackArgs' = NoCall
    /\ fallbackRet' = NoResult
    /\ UNCHANGED <<m_ipv4, configVars, routingProtocol, qosVars>>

Next ==
    \/ SetIpv4
    \/ SetRoutingProtocol
    \/ \E dscp \in Dscps, dst \in Destinations : RouteOutput(dscp, dst)
    \/ \E dscp \in Dscps, dst \in Destinations : RouteInput(dscp, dst)
    \/ DelegateRouteOutput
    \/ DelegateRouteInput
    \/ ReenterRouteOutput
    \/ ReenterRouteInput
    \/ StackOverflow
    \/ Complete

Spec == Init /\ [][Next]_vars

(***************************************************************************)
(* qos-implementation.cc : CheckMetrics                                    *)
(***************************************************************************)
SIMULATION_TIME == 15
VOIP_PORT == 9
FTP_PORT == 10

\* Flows the monitor tracks, and monitor updates in one run.
MaxFlows == 3
MaxEvents == 4

\* Source ports of the observed flows: the two the code tests for and an
\* ephemeral one.
Ports == {VOIP_PORT, FTP_PORT, 49153}

\* Delay added by one received packet, in milliseconds; the jitter of a
\* packet is the distance of its delay from the previous packet's (none for
\* the first packet of a flow).
Delays == {0, 1}

\* IEEE-754 doubles as exact values: a finite fraction n/d in lowest terms,
\* a signed infinity, or NaN.
RECURSIVE GCD(_, _)
GCD(a, b) == IF b = 0 THEN a ELSE GCD(b, a % b)

Abs(x) == IF x < 0 THEN -x ELSE x

Fin(n, d) ==
    LET g == GCD(Abs(n), Abs(d))
        s == IF d < 0 THEN -1 ELSE 1
    IN  [k |-> "fin", n |-> (s * n) \div g, d |-> (s * d) \div g]

Inf(s) == [k |-> "inf", s |-> s]
NaN == [k |-> "nan"]
Num(i) == Fin(i, 1)

Sign(x) == IF x.k = "fin" THEN (IF x.n > 0 THEN 1 ELSE IF x.n < 0 THEN -1 ELSE 0)
           ELSE IF x.k = "inf" THEN x.s ELSE 0

\* a + b and a - b on finite operands (the sums of the loop).
DAdd(a, b) == Fin(a.n * b.d + b.n * a.d, a.d * b.d)
DSub(a, b) == Fin(a.n * b.d - b.n * a.d, a.d * b.d)

\* a / b: a division by zero raises no fault, it yields an infinity or NaN.
DDiv(a, b) ==
    IF a.k = "nan" \/ b.k = "nan" THEN NaN
    ELSE IF a.k = "inf" THEN (IF b.k = "inf" THEN NaN
                              ELSE Inf(IF Sign(b) < 0 THEN -(a.s) ELSE a.s))
    ELSE IF b.k = "inf" THEN Num(0)
    ELSE IF b.n = 0 THEN (IF a.n = 0 THEN NaN ELSE Inf(Sign(a)))
    ELSE Fin(a.n * b.d, a.d * b.n)

DMul(a, b) ==
    IF a.k = "nan" \/ b.k = "nan" THEN NaN
    ELSE IF a.k = "inf" \/ b.k = "inf"
         THEN (IF Sign(a) * Sign(b) = 0 THEN NaN ELSE Inf(Sign(a) * Sign(b)))
    ELSE Fin(a.n * b.n, a.d * b.d)

\* a > 0 as the double comparison decides it (false on NaN).
Positive(a) == Sign(a) > 0

\* Time::GetSeconds of a sum kept in milliseconds.
GetSeconds(t) == Fin(t, 1000)

ZeroTotals ==
    [k |-> "totals",
     totalTxVoIP |-> Num(0), totalRxVoIP |-> Num(0),
     totalDelayVoIP |-> Num(0), totalJitterVoIP |-> Num(0),
     totalTxFTP |-> Num(0), totalRxFTP |-> Num(0), totalDelayFTP |-> Num(0)]

\* The loop body with a plain else: every flow that is not VoIP counts as FTP.
AddFlowStatsElse(t, f) ==
    IF f.sourcePort = VOIP_PORT
    THEN [t EXCEPT !.totalTxVoIP = DAdd(@, Num(f.txPackets)),
                   !.totalRxVoIP = DAdd(@, Num(f.rxPackets)),
                   !.totalDelayVoIP = DAdd(@, GetSeconds(f.delaySum)),
                   !.totalJitterVoIP = DAdd(@, GetSeconds(f.jitterSum))]
    ELSE [t EXCEPT !.totalTxFTP = DAdd(@, Num(f.txPackets)),
                   !.totalRxFTP = DAdd(@, Num(f.rxPackets)),
                   !.totalDelayFTP = DAdd(@, GetSeconds(f.delaySum))]

\* Body of the loop over the flow statistics for one entry.
AddFlowStats(t, f) ==
    IF f.sourcePort = VOIP_PORT
    THEN [t EXCEPT !.totalTxVoIP = DAdd(@, Num(f.txPackets)),
                   !.totalRxVoIP = DAdd(@, Num(f.rxPackets)),
                   !.totalDelayVoIP = DAdd(@, GetSeconds(f.delaySum)),
                   !.totalJitterVoIP = DAdd(@, GetSeconds(f.jitterSum))]
    ELSE IF f.sourcePort = FTP_PORT
    THEN [t EXCEPT !.totalTxFTP = DAdd(@, Num(f.txPackets)),
                   !.totalRxFTP = DAdd(@, Num(f.rxPackets)),
                   !.totalDelayFTP = DAdd(@, GetSeconds(f.delaySum))]
    ELSE t

\* The loop, in FlowId order, over the first n entries of the snapshot.
RECURSIVE SumFlows(_, _)
SumFlows(st, n) ==
    IF n = 0 THEN ZeroTotals ELSE AddFlowStats(SumFlows(st, n - 1), st[n])

Omitted == [present |-> FALSE]

\* The VoIP block guarded by the transmitted total instead of the received one.
VoIPMetricsByTx(t) ==
    IF Positive(t.totalTxVoIP)
    THEN [present |-> TRUE,
          loss |-> DMul(DDiv(DSub(t.totalTxVoIP, t.totalRxVoIP), t.totalTxVoIP), Num(100)),
          avgDelay |-> DMul(DDiv(t.totalDelayVoIP, t.totalRxVoIP), Num(1000)),
          avgJitter |-> DMul(DDiv(t.totalJitterVoIP, t.totalRxVoIP), Num(1000))]
    ELSE Omitted

\* The block printed for VoIP.
VoIPMetrics(t) ==
    IF Positive(t.totalRxVoIP)
    THEN [present |-> TRUE,
          loss |-> DMul(DDiv(DSub(t.totalTxVoIP, t.totalRxVoIP), t.totalTxVoIP), Num(100)),
          avgDelay |-> DMul(DDiv(t.totalDelayVoIP, t.totalRxVoIP), Num(1000)),
          avgJitter |-> DMul(DDiv(t.totalJitterVoIP, t.totalRxVoIP), Num(1000))]
    ELSE Omitted

\* The block printed for FTP.
FTPMetrics(t) ==
    IF Positive(t.totalRxFTP)
    THEN [present |-> TRUE,
          loss |-> DMul(DDiv(DSub(t.totalTxFTP, t.totalRxFTP), t.totalTxFTP), Num(100)),
          throughput |-> DDiv(DMul(DMul(t.totalRxFTP, Num(1500)), Num(8)),
                              DMul(DSub(Num(SIMULATION_TIME), Num(3)), Num(1000000))),
          avgDelay |-> DMul(DDiv(t.totalDelayFTP, t.totalRxFTP), Num(1000))]
    ELSE Omitted

QosStart ==
    /\ flows = <<>>
    /\ events = 0
    /\ stats = <<>>
    /\ totals = [k |-> "none"]
    /\ report = [k |-> "none"]
    /\ checked = FALSE

\* The flow monitor sees a new flow.  The applications stop at
\* SIMULATION_TIME - 3 and the check runs at SIMULATION_TIME - 2: the monitor
\* is quiescent once the check has run.
NewFlow(port) ==
    /\ ~checked
    /\ Len(flows) < MaxFlows
    /\ flows' = Append(flows, [sourcePort |-> port, txPackets |-> 0, rxPackets |-> 0,
                               delaySum |-> 0, jitterSum |-> 0])
    /\ UNCHANGED <<events, stats, totals, report, checked, pbrVars>>

\* The flow monitor counts a transmitted packet of flow id.
MonitorTx(id) ==
    /\ ~checked
    /\ events < MaxEvents
    /\ events' = events + 1
    /\ flows' = [flows EXCEPT ![id].txPackets = @ + 1]
    /\ UNCHANGED <<stats, totals, report, checked, pbrVars>>

\* The flow monitor counts a received packet of flow id; the counters of a
\* flow are updated independently of each other.
MonitorRx(id, delay, jitter) ==
    /\ ~checked
    /\ events < MaxEvents
    /\ events' = events + 1
    /\ flows' = [flows EXCEPT ![id].rxPackets = @ + 1,
                              ![id].delaySum = @ + delay,
                              ![id].jitterSum = @ + jitter]
    /\ UNCHANGED <<stats, totals, report, checked, pbrVars>>

\* The scheduled call of CheckMetrics: snapshot, loop, the two blocks.
CheckMetrics ==
    /\ ~checked
    /\ checked' = TRUE
    /\ stats' = flows
    /\ totals' = SumFlows(stats', Len(stats'))
    /\ report' = [k |-> "report", voip |-> VoIPMetrics(totals'), ftp |-> FTPMetrics(totals')]
    /\ UNCHANGED <<flows, events, pbrVars>>

\* The engine of the other program, untouched.
PbrIdle ==
    /\ m_ipv4 = "null"
    /\ m_videoNextHop = "10.0.2.2"
    /\ m_dataNextHop = "10.0.3.2"
    /\ m_videoIfIndex = 2
    /\ m_dataIfIndex = 3
    /\ routingProtocol = "list"
    /\ tailCall = FALSE
    /\ pc = "idle"
    /\ call = NoCall
    /\ depth = 0
    /\ branch = "none"
    /\ result = NoResult
    /\ fallbackCalls = 0
    /\ fallbackArgs = NoCall
    /\ fallbackRet = NoResult

QosInit == PbrIdle /\ QosStart

QosNext ==
    \/ \E port \in Ports : NewFlow(port)
    \/ \E id \in 1 .. Len(flows) : MonitorTx(id)
    \/ \E id \in 1 .. Len(flows), delay \in Delays, jitter \in Delays :
          (flows[id].rxPackets = 0 => jitter = 0) /\ MonitorRx(id, delay, jitter)
    \/ CheckMetrics

QosSpec == QosInit /\ [][QosNext]_vars

(***************************************************************************)
(* Properties of PbrRouting, checked under Spec                            *)
(***************************************************************************)
CallMade == call.op # "none"
Matched == CallMade /\ call.op = "RouteOutput" /\ call.dscp \in {46, 0}
Unmatched == CallMade /\ call.op = "RouteOutput" /\ call.dscp \notin {46, 0}
\* The call has gone past the delegation line at least once.
PastDelegation == pc \in {"returned", "crashed"} \/ depth > 1

\* C1: for every outbound packet marked EF (0x2e) or BE (0x00) and every
\* destination, RouteOutput returns a route whose gateway and output interface
\* are the next hop and interface index given to the constructor for that
\* class, whose destination is the header's, and the fallback provider is
\* not invoked.
C1_PolicyRouteReturned ==
    Matched =>
        /\ pc = "returned"
        /\ result.kind = "route"
        /\ result.gateway = (IF call.dscp = 46 THEN m_videoNextHop ELSE m_dataNextHop)
        /\ result.outputDevice =
               <<"dev", IF call.dscp = 46 THEN m_videoIfIndex ELSE m_dataIfIndex>>
        /\ result.destination = call.dst
        /\ fallbackCalls = 0

\* C2: for every outbound packet with any other DSCP value, RouteOutput
\* calls the fallback provider with the original packet, header and hint and
\* returns exactly what the provider returned.
C2_UnmatchedDelegatesVerbatim ==
    (Unmatched /\ PastDelegation) =>
        /\ pc = "returned"
        /\ fallbackCalls = 1
        /\ fallbackArgs = call
        /\ result = fallbackRet

\* C3: with the engine installed as the node's routing protocol, every
\* RouteOutput and RouteInput call returns after a bounded number of steps:
\* the delegation never enters the engine's own method again and the stack
\* is never exhausted.
C3_InstalledCallsTerminate ==
    (routingProtocol = "pbr" /\ CallMade) =>
        /\ depth <= 1
        /\ ~(pc = "crashed" /\ result.cause = "stack_overflow")

\* C4: RouteInput, whatever the marking, calls the fallback provider's
\* RouteInput with the same arguments and returns its boolean unchanged.
C4_RouteInputDelegates ==
    (CallMade /\ call.op = "RouteInput" /\ PastDelegation) =>
        /\ pc = "returned"
        /\ fallbackCalls = 1
        /\ fallbackArgs = call
        /\ result = fallbackRet

\* C5: classification is total: marking 0x2e takes the high-priority (video)
\* branch, marking 0x00 the low-priority (data) branch, every other marking
\* the unclassified (fallback) branch, and exactly one of the three is taken.
C5_ClassificationTotal ==
    (CallMade /\ call.op = "RouteOutput") =>
        /\ branch \in {"video", "data", "fallback"}
        /\ (branch = "video") <=> (call.dscp = 46)
        /\ (branch = "data") <=> (call.dscp = 0)
        /\ (branch = "fallback") <=> (call.dscp \notin {0, 46})

C5_Witness ==
    /\ call.op = "RouteOutput"
    /\ call.dscp = 46
    /\ branch = "video"
    /\ pc = "returned"

\* C10: an engine whose egress interface index is not a locally attached
\* interface is rejected at construction: none is ever installed and no
\* RouteOutput call on a policy-matched packet meets an invalid interface.
C10_InvalidInterfaceRejected ==
    /\ routingProtocol = "pbr" =>
           (m_videoIfIndex \in 0 .. 3 /\ m_dataIfIndex \in 0 .. 3)
    /\ Matched => ~(pc = "crashed" /\ result.cause = "null_interface")

(***************************************************************************)
(* Properties of CheckMetrics, checked under QosSpec                       *)
(***************************************************************************)
RECURSIVE SumOver(_, _)
SumOver(S, field) ==
    IF S = {} THEN 0
    ELSE LET i == CHOOSE x \in S : TRUE
         IN  stats[i][field] + SumOver(S \ {i}, field)

\* Sum of a field over exactly the snapshot records with the given source port.
PortSum(port, field) ==
    SumOver({i \in DOMAIN stats : stats[i].sourcePort = port}, field)

Reported == {report.voip, report.ftp}

\* C6: in every pass, a class whose received total exceeds its transmitted
\* total is reported with lossPercent 0, and no reported class has a
\* negative loss percentage.  (Stated for transmitted totals above zero; the
\* zero total is the case of C7.)
C6_LossClamped ==
    checked =>
        /\ (/\ report.voip.present
            /\ PortSum(9, "txPackets") > 0
            /\ PortSum(9, "rxPackets") > PortSum(9, "txPackets"))
               => report.voip.loss = Num(0)
        /\ (/\ report.ftp.present
            /\ PortSum(10, "txPackets") > 0
            /\ PortSum(10, "rxPackets") > PortSum(10, "txPackets"))
               => report.ftp.loss = Num(0)
        /\ \A c \in Reported : (c.present /\ c.loss.k = "fin") => c.loss.n >= 0

\* C7: in every pass, a class whose transmitted total is zero is omitted from
\* the output (no division by the zero total), whatever its received total.
C7_ZeroTransmittedOmitted ==
    checked =>
        /\ PortSum(9, "txPackets") = 0 => ~report.voip.present
        /\ PortSum(10, "txPackets") = 0 => ~report.ftp.present

\* C8: a class is in the output if and only if its received total is nonzero
\* (transmitted > 0 with received = 0 gives no entry, not 100% loss), and a
\* class with transmitted = received and zero cumulative delay is reported
\* with lossPercent 0 and avgDelayMs 0.
C8_PresentIffReceived ==
    checked =>
        /\ report.voip.present <=> (PortSum(9, "rxPackets") # 0)
        /\ report.ftp.present <=> (PortSum(10, "rxPackets") # 0)
        /\ (/\ report.voip.present
            /\ PortSum(9, "txPackets") = PortSum(9, "rxPackets")
            /\ PortSum(9, "delaySum") = 0)
               => (report.voip.loss = Num(0) /\ report.voip.avgDelay = Num(0))
        /\ (/\ report.ftp.present
            /\ PortSum(10, "txPackets") = PortSum(10, "rxPackets")
            /\ PortSum(10, "delaySum") = 0)
               => (report.ftp.loss = Num(0) /\ report.ftp.avgDelay = Num(0))

C8_Witness ==
    /\ checked
    /\ PortSum(9, "txPackets") > 0
    /\ PortSum(9, "rxPackets") = 0
    /\ ~report.voip.present
    /\ report.ftp.present
    /\ PortSum(10, "txPackets") = PortSum(10, "rxPackets")
    /\ PortSum(10, "delaySum") = 0

\* C9: each class's transmitted / received / delay totals are the sums over
\* exactly the records whose source port is the class's port (9 high
\* priority, 10 low priority); a record with any other port adds to no total.
C9_TotalsAreBucketSums ==
    checked =>
        /\ totals.totalTxVoIP = Num(PortSum(9, "txPackets"))
        /\ totals.totalRxVoIP = Num(PortSum(9, "rxPackets"))
        /\ totals.totalDelayVoIP = Fin(PortSum(9, "delaySum"), 1000)
        /\ totals.totalTxFTP = Num(PortSum(10, "txPackets"))
        /\ totals.totalRxFTP = Num(PortSum(10, "rxPackets"))
        /\ totals.totalDelayFTP = Fin(PortSum(10, "delaySum"), 1000)

C9_Witness ==
    /\ checked
    /\ \E i \in DOMAIN stats :
          /\ stats[i].sourcePort \notin {9, 10}
          /\ stats[i].txPackets > 0
          /\ stats[i].rxPackets > 0
          /\ stats[i].delaySum > 0
    /\ \E i \in DOMAIN stats : stats[i].sourcePort = 9 /\ stats[i].txPackets > 0
    /\ \E i \in DOMAIN stats : stats[i].sourcePort = 10 /\ stats[i].txPackets > 0

====
